---- MODULE Spec2Model ----
(***************************************************************************)
(* Review aggregation of the tour application: the Review collection with  *)
(* its unique (tour, user) index, the hooks of reviewSchema around save    *)
(* and findOneAnd* queries, calcAverageRatings, and the two summary fields *)
(* of the Tour collection it writes.                                       *)
(*                                                                         *)
(* Ratings and averages are counted in tenths (4.5 is 45), so that the     *)
(* setter of ratingsAverage, Math.round(val * 10) / 10, is exact integer   *)
(* arithmetic.  Every rating of the model is a multiple of 0.5, for which  *)
(* the double arithmetic of the store and the exact arithmetic agree.      *)
(***************************************************************************)
EXTENDS Integers, FiniteSets, Sequences, TLC

\* Requests the server works on at the same time.
NProcs == 2
Procs == 1..NProcs

\* Requests the server takes in one run of the model.
MaxOps == 2

Tours == {"t1", "t2"}
Users == {"u1", "u2"}

\* tourSchema.secretTour of each tour of the model: t2 is a secret tour.
secretTour == [t \in Tours |-> t = "t2"]

\* rating is not required by reviewSchema: a review may carry none.
NoRating == 0
\* Ratings the validators of reviewSchema accept (min 1, max 5), in tenths.
Ratings == {40, 45}

\* ratingsAverage: { default: 4.5 }, and the literal of calcAverageRatings.
DefaultRatingsAverage == 45
\* ratingsQuantity: { default: 0 }
DefaultRatingsQuantity == 0
\* ratingsAverage: { min: 1, max: 5 }, the validators of the field, in tenths.
MinRatingsAverage == 10
MaxRatingsAverage == 50

NoTour == "null"
\* No aggregate read yet: a group of no document, which $group never returns.
NoStats == <<[nRating |-> 0, sum |-> 0, cnt |-> 0]>>

VARIABLES
  reviews,   \* the Review collection: documents [tour, user, rating]
  tours,     \* the Tour collection: tour -> [ratingsQuantity, ratingsAverage]
  pc,        \* where each request is: "idle", "exec", "agg", "write"
  op,        \* the query or document of each request in flight
  r,         \* this.r.tour of the query, as the pre hook left it (or NoTour)
  tourId,    \* the argument of the request's calcAverageRatings call
  stats,     \* the result of the aggregate of that call, once read
  res,       \* what the caller of each request last got back
  closing,   \* the unhandledRejection handler has run: server.close()
  nOps       \* requests taken so far

vars == <<reviews, tours, pc, op, r, tourId, stats, res, closing, nOps>>

NoOp == [kind |-> "none", tour |-> NoTour, user |-> "null", rating |-> NoRating, newTour |-> NoTour]
NoRes == [kind |-> "none", out |-> "none"]

----------------------------------------------------------------------------
\* The Review collection

\* The document a filter { tour, user } matches, as a set (empty or one).
find(revs, t, u) == {rv \in revs : rv.tour = t /\ rv.user = u}

\* Query.findOne() of the pre hook: the tour of the matching document.
findOne(revs, t, u) == IF find(revs, t, u) = {} THEN NoTour ELSE t

\* Variant: the collection without its unique index.
duplicateKeyNoIndex(revs, doc) == FALSE

\* The unique index { tour: 1, user: 1 }: doc collides with a stored document.
duplicateKey(revs, doc) == \E rv \in revs : rv.tour = doc.tour /\ rv.user = doc.user

\* Variant: a refused insert that has overwritten the stored document.
insertOneReplacing(revs, doc) ==
  IF duplicateKey(revs, doc)
  THEN [err |-> TRUE, docs |-> (revs \ find(revs, doc.tour, doc.user)) \cup {doc}]
  ELSE [err |-> FALSE, docs |-> revs \cup {doc}]

\* The insert of save(): refused by the index, or the document is stored.
insertOne(revs, doc) ==
  IF duplicateKey(revs, doc)
  THEN [err |-> TRUE, docs |-> revs]
  ELSE [err |-> FALSE, docs |-> revs \cup {doc}]

\* The document after $set of the update's fields: a new tour reference, and
\* a new rating when the update carries one.
applyUpdate(rv, o) ==
  [tour |-> o.newTour, user |-> rv.user,
   rating |-> IF o.rating = NoRating THEN rv.rating ELSE o.rating]

\* Variant: a query that resolves before the store has applied it.
executeNothing(revs, o) == [err |-> FALSE, docs |-> revs]

\* findOneAndUpdate / findOneAndDelete on the collection: the matching
\* document is changed or removed; an update into a stored (tour, user) pair is
\* refused by the index.
execute(revs, o) ==
  LET m == find(revs, o.tour, o.user) IN
  IF m = {} THEN [err |-> FALSE, docs |-> revs]
  ELSE IF o.kind = "delete" THEN [err |-> FALSE, docs |-> revs \ m]
  ELSE LET old == CHOOSE rv \in m : TRUE
           new == applyUpdate(old, o)
       IN IF duplicateKey(revs \ m, new)
          THEN [err |-> TRUE, docs |-> revs]
          ELSE [err |-> FALSE, docs |-> (revs \ m) \cup {new}]

----------------------------------------------------------------------------
\* calcAverageRatings

RECURSIVE sumRatings(_)
sumRatings(S) ==
  IF S = {} THEN 0
  ELSE LET x == CHOOSE x \in S : TRUE IN x.rating + sumRatings(S \ {x})

\* $match { tour: tourId }, $group { nRating: $sum 1, avgRating: $avg rating }:
\* no group when nothing matches; $avg is over the documents that carry a
\* rating, sum / cnt, and null (cnt = 0) when none does.
aggregate(revs, t) ==
  LET m == {rv \in revs : rv.tour = t}
      rated == {rv \in m : rv.rating # NoRating}
  IN IF m = {} THEN <<>>
     ELSE <<[nRating |-> Cardinality(m), sum |-> sumRatings(rated), cnt |-> Cardinality(rated)]>>

\* Variant: a setter that truncates, Math.floor(val * 10) / 10.
setRatingsAverageNoRound(num, den) == IF den = 0 THEN 0 ELSE num \div den

\* set: (val) => Math.round(val * 10) / 10, in tenths, on the average
\* val * 10 = num / den: Math.round(x) is floor(x + 1/2); a null val (den = 0)
\* multiplies to 0.
setRatingsAverage(num, den) ==
  IF den = 0 THEN 0 ELSE (2 * num + den) \div (2 * den)

\* The update document as the Tour schema casts it: the setter runs on
\* ratingsAverage.
castUpdate(qty, num, den) ==
  [ratingsQuantity |-> qty, ratingsAverage |-> setRatingsAverage(num, den)]

\* The update calcAverageRatings issues for the stats it read: the group's
\* nRating and avgRating, or the literals 0 and 4.5 when there is no group.
summaryUpdate(st) ==
  IF Len(st) > 0
  THEN castUpdate(st[1].nRating, st[1].sum, st[1].cnt)
  ELSE castUpdate(0, DefaultRatingsAverage, 1)

\* Variant: an update with no _id in its filter, of every tour it matches.
findByIdAndUpdateMany(ts, t, upd) ==
  [x \in Tours |-> IF secretTour[x] THEN ts[x] ELSE upd]

\* Variant: two updates of one field each, of which only the first has run.
findByIdAndUpdateTorn(ts, t, upd) ==
  IF secretTour[t] THEN ts
  ELSE [ts EXCEPT ![t].ratingsQuantity = upd.ratingsQuantity]

\* Tour.findByIdAndUpdate(tourId, update): one update of one document; the
\* /^find/ hook of tourSchema adds { secretTour: { $ne: true } } to the filter
\* of this query too, so that it matches no secret tour.
findByIdAndUpdate(ts, t, upd) ==
  IF secretTour[t] THEN ts ELSE [ts EXCEPT ![t] = upd]

----------------------------------------------------------------------------
\* The requests

Init ==
  /\ reviews = {}
  /\ tours = [t \in Tours |-> [ratingsQuantity |-> DefaultRatingsQuantity,
                               ratingsAverage |-> DefaultRatingsAverage]]
  /\ pc = [p \in Procs |-> "idle"]
  /\ op = [p \in Procs |-> NoOp]
  /\ r = [p \in Procs |-> NoTour]
  /\ tourId = [p \in Procs |-> NoTour]
  /\ stats = [p \in Procs |-> NoStats]
  /\ res = [p \in Procs |-> NoRes]
  /\ closing = FALSE
  /\ nOps = 0

\* The request is over: its result is what the caller keeps.
finish(p, kind, out) ==
  /\ pc' = [pc EXCEPT ![p] = "idle"]
  /\ op' = [op EXCEPT ![p] = NoOp]
  /\ r' = [r EXCEPT ![p] = NoTour]
  /\ tourId' = [tourId EXCEPT ![p] = NoTour]
  /\ stats' = [stats EXCEPT ![p] = NoStats]
  /\ res' = [res EXCEPT ![p] = [kind |-> kind, out |-> out]]

\* A request may start: the server still accepts connections.
accepts(p) == pc[p] = "idle" /\ ~closing /\ nOps < MaxOps

\* Variant: a create that resolves only when its recompute is over.
createAwaited(p, t, u, rt) ==
  LET doc == [tour |-> t, user |-> u, rating |-> rt]
      ins == insertOne(reviews, doc)
  IN /\ accepts(p)
     /\ nOps' = nOps + 1
     /\ reviews' = ins.docs
     /\ IF ins.err
        THEN /\ finish(p, "create", "UniquenessError")
        ELSE /\ pc' = [pc EXCEPT ![p] = "agg"]
             /\ op' = [op EXCEPT ![p] = [NoOp EXCEPT !.kind = "create"]]
             /\ tourId' = [tourId EXCEPT ![p] = doc.tour]
             /\ res' = [res EXCEPT ![p] = NoRes]
             /\ UNCHANGED <<r, stats>>
     /\ UNCHANGED <<tours, closing>>

\* Review.create(doc): save() inserts; post('save') then calls
\* calcAverageRatings(this.tour) without awaiting it, and create resolves.
create(p, t, u, rt) ==
  LET doc == [tour |-> t, user |-> u, rating |-> rt]
      ins == insertOne(reviews, doc)
  IN /\ accepts(p)
     /\ nOps' = nOps + 1
     /\ reviews' = ins.docs
     /\ IF ins.err
        THEN /\ finish(p, "create", "UniquenessError")
        ELSE /\ pc' = [pc EXCEPT ![p] = "agg"]
             /\ op' = [op EXCEPT ![p] = [NoOp EXCEPT !.kind = "create"]]
             /\ tourId' = [tourId EXCEPT ![p] = doc.tour]
             /\ res' = [res EXCEPT ![p] = [kind |-> "create", out |-> "ok"]]
             /\ UNCHANGED <<r, stats>>
     /\ UNCHANGED <<tours, closing>>

\* findOneAndUpdate / findOneAndDelete: pre(/^findOneAnd/) reads this.r with
\* the query's filter before the query runs.  The filter is an equality on
\* tour and user, which the unique index makes match at most one review; an
\* update sets the review's tour and, when it carries one, its rating.
findOneAnd(p, o) ==
  /\ accepts(p)
  /\ nOps' = nOps + 1
  /\ pc' = [pc EXCEPT ![p] = "exec"]
  /\ op' = [op EXCEPT ![p] = o]
  /\ r' = [r EXCEPT ![p] = findOne(reviews, o.tour, o.user)]
  /\ res' = [res EXCEPT ![p] = NoRes]
  /\ UNCHANGED <<reviews, tours, tourId, stats, closing>>

findOneAndUpdate(p, t, u, rt, nt) ==
  findOneAnd(p, [kind |-> "update", tour |-> t, user |-> u, rating |-> rt, newTour |-> nt])

findOneAndDelete(p, t, u) ==
  findOneAnd(p, [kind |-> "delete", tour |-> t, user |-> u, rating |-> NoRating, newTour |-> t])

\* Variant: the tour of the document as the query left it.
postTourAfter(p) == IF op[p].kind = "update" THEN op[p].newTour ELSE op[p].tour

\* The tour post(/^findOneAnd/) passes to calcAverageRatings: this.r.tour.
postTour(p) == r[p]

\* The query runs, then post(/^findOneAnd/): this.r.constructor throws a
\* TypeError when this.r is null; otherwise calcAverageRatings(this.r.tour)
\* is called and awaited.  A query the store refuses runs no post hook.
exec(p) ==
  LET q == execute(reviews, op[p]) IN
  /\ pc[p] = "exec"
  /\ reviews' = q.docs
  /\ IF q.err THEN finish(p, op[p].kind, "UniquenessError")
     ELSE IF r[p] = NoTour THEN finish(p, op[p].kind, "TypeError")
     ELSE /\ pc' = [pc EXCEPT ![p] = "agg"]
          /\ op' = [op EXCEPT ![p] = [NoOp EXCEPT !.kind = op[p].kind]]
          /\ tourId' = [tourId EXCEPT ![p] = postTour(p)]
          /\ UNCHANGED <<r, stats, res>>
  /\ UNCHANGED <<tours, closing, nOps>>

\* calcAverageRatings: const stats = await this.aggregate([...])
calcAggregate(p) ==
  /\ pc[p] = "agg"
  /\ stats' = [stats EXCEPT ![p] = aggregate(reviews, tourId[p])]
  /\ pc' = [pc EXCEPT ![p] = "write"]
  /\ UNCHANGED <<reviews, tours, op, r, tourId, res, closing, nOps>>

\* Variant: an incremental summary, the count stepped from the stored one.
calcWriteIncremental(p) ==
  /\ pc[p] = "write"
  /\ tours' = findByIdAndUpdate(tours, tourId[p],
                 [summaryUpdate(stats[p]) EXCEPT
                    !.ratingsQuantity = tours[tourId[p]].ratingsQuantity + 1])
  /\ finish(p, op[p].kind, "ok")
  /\ UNCHANGED <<reviews, closing, nOps>>

\* calcAverageRatings: await Tour.findByIdAndUpdate(tourId, {...}); the
\* call returns, to nobody for a create and to the awaiting post hook, and so
\* to the caller of the query, otherwise.
calcWrite(p) ==
  /\ pc[p] = "write"
  /\ tours' = findByIdAndUpdate(tours, tourId[p], summaryUpdate(stats[p]))
  /\ finish(p, op[p].kind, "ok")
  /\ UNCHANGED <<reviews, closing, nOps>>

\* The store fails a request's first query (the insert of save, or the
\* findOne of the pre hook): the error goes to the caller, nothing has run.
mutationFails(p, kind) ==
  /\ accepts(p)
  /\ nOps' = nOps + 1
  /\ finish(p, kind, "StoreError")
  /\ UNCHANGED <<reviews, tours, closing>>

\* Variant: the store fails the query after it has applied it.
execFailsApplied(p) ==
  /\ pc[p] = "exec"
  /\ reviews' = execute(reviews, op[p]).docs
  /\ finish(p, op[p].kind, "StoreError")
  /\ UNCHANGED <<tours, closing, nOps>>

\* The store fails the findOneAnd* query itself: no post hook runs.
execFails(p) ==
  /\ pc[p] = "exec"
  /\ finish(p, op[p].kind, "StoreError")
  /\ UNCHANGED <<reviews, tours, closing, nOps>>

\* Variant: post('save') awaiting the call, so that its failure fails the
\* create.
calcFailsAwaited(p) ==
  /\ pc[p] \in {"agg", "write"}
  /\ finish(p, op[p].kind, "StoreError")
  /\ UNCHANGED <<reviews, tours, closing, nOps>>

\* The store fails the aggregate or the findByIdAndUpdate of
\* calcAverageRatings and the promise rejects.  post(/^findOneAnd/) awaits it:
\* the query rejects.  post('save') dropped it: process.on('unhandledRejection')
\* logs and closes the server; the create has long resolved.
calcFails(p) ==
  /\ pc[p] \in {"agg", "write"}
  /\ IF op[p].kind = "create"
     THEN /\ closing' = TRUE
          /\ pc' = [pc EXCEPT ![p] = "idle"]
          /\ op' = [op EXCEPT ![p] = NoOp]
          /\ tourId' = [tourId EXCEPT ![p] = NoTour]
          /\ stats' = [stats EXCEPT ![p] = NoStats]
          /\ UNCHANGED <<r, res>>
     ELSE /\ finish(p, op[p].kind, "StoreError")
          /\ UNCHANGED closing
  /\ UNCHANGED <<reviews, tours, nOps>>

\* No request is in flight, no calcAverageRatings call is pending.
quiescent == \A p \in Procs : pc[p] = "idle"

Begin(p) ==
  \/ \E t \in Tours, u \in Users, rt \in Ratings \cup {NoRating} : create(p, t, u, rt)
  \/ \E t \in Tours, u \in Users, rt \in Ratings \cup {NoRating}, nt \in Tours :
       findOneAndUpdate(p, t, u, rt, nt)
  \/ \E t \in Tours, u \in Users : findOneAndDelete(p, t, u)

Step(p) ==
  \/ exec(p)
  \/ calcAggregate(p)
  \/ calcWrite(p)

Fault(p) ==
  \/ \E kind \in {"create", "update", "delete"} : mutationFails(p, kind)
  \/ execFails(p)
  \/ calcFails(p)

\* Requests run concurrently and the store may fail any query.
Next == \E p \in Procs : Begin(p) \/ Step(p) \/ Fault(p)
Spec == Init /\ [][Next]_vars

\* Requests run concurrently; the store answers every query.
NextNoFault == \E p \in Procs : Begin(p) \/ Step(p)
SpecNoFault == Init /\ [][NextNoFault]_vars

\* One request at a time: the next one starts when the one before and the
\* calcAverageRatings call it made are over; the store answers every query.
NextSeq == \E p \in Procs : (quiescent /\ Begin(p)) \/ Step(p)
SpecSeq == Init /\ [][NextSeq]_vars

----------------------------------------------------------------------------
\* What the claims speak of

\* The stored reviews of tour t, and those of them that carry a rating.
reviewsOf(t) == {rv \in reviews : rv.tour = t}
ratedOf(t) == {rv \in reviews : rv.tour = t /\ rv.rating # NoRating}

\* a (in tenths) is the arithmetic mean of the ratings of tour t.
isMean(a, t) == a * Cardinality(ratedOf(t)) = sumRatings(ratedOf(t))

\* a (in tenths) is that mean rounded to one decimal, a half going up:
\* a - 1/2 <= mean < a + 1/2.
isRoundedMean(a, t) ==
  LET cnt == Cardinality(ratedOf(t))
      sum == sumRatings(ratedOf(t))
  IN (2 * a - 1) * cnt <= 2 * sum /\ 2 * sum < (2 * a + 1) * cnt

\* The summary of tour t is the count and the mean of its stored reviews,
\* or 0 and 4.5 when it has none.
summaryIsLive(t) ==
  /\ tours[t].ratingsQuantity = Cardinality(reviewsOf(t))
  /\ reviewsOf(t) = {} => tours[t].ratingsAverage = DefaultRatingsAverage
  /\ ratedOf(t) # {} => isMean(tours[t].ratingsAverage, t)

\* C1 (as claimed): requests run one at a time; once every calcAverageRatings
\* call they made is over, each tour's ratingsQuantity is the number of its
\* stored reviews and its ratingsAverage their arithmetic mean, or 4.5 when it
\* has none.
C1_SequentialConvergence == quiescent => \A t \in Tours : summaryIsLive(t)

\* C2 (as claimed): requests run concurrently, their aggregate reads and
\* summary writes interleaving in any order; in every state with no request
\* and no recompute in flight each tour's stored summary is the count and the
\* mean of the reviews stored for it.
C2_ConcurrentConvergence ==
  (\A p \in Procs : pc[p] \notin {"exec", "agg", "write"})
    => \A t \in Tours : summaryIsLive(t)

\* C3: in every reachable state, also after two concurrent creates of the same
\* (tour, user) pair, the Review collection holds at most one review for each
\* (tour, user) pair.
C3_Uniqueness ==
  \A a \in reviews, b \in reviews : (a.tour = b.tour /\ a.user = b.user) => a = b

\* Two creates overlapped: one is stored and its recompute still pending, the
\* other was refused with the uniqueness error.
C3_Witness ==
  \E p \in Procs, q \in Procs :
    /\ p # q
    /\ pc[p] \in {"agg", "write"} /\ op[p].kind = "create"
    /\ res[q] = [kind |-> "create", out |-> "UniquenessError"]
    /\ Cardinality(reviews) = 1

\* C4: a create whose (tour, user) pair already has a stored review fails with
\* the uniqueness error, stores nothing, leaves the stored review as it is,
\* starts no recompute and leaves every tour summary as it is.
C4_RejectedDuplicate ==
  [][\A p \in Procs, t \in Tours, u \in Users, rt \in Ratings \cup {NoRating} :
       (create(p, t, u, rt) /\ find(reviews, t, u) # {})
         => /\ res'[p] = [kind |-> "create", out |-> "UniquenessError"]
            /\ reviews' = reviews
            /\ tours' = tours
            /\ pc'[p] = "idle" /\ tourId'[p] = NoTour]_vars

\* A create has been refused as a duplicate while the review it collided with
\* is stored.
C4_Witness ==
  \E p \in Procs :
    /\ res[p] = [kind |-> "create", out |-> "UniquenessError"]
    /\ pc[p] = "idle"
    /\ reviews # {}

\* C5: a findOneAnd* query whose filter matches a review reads it in the pre
\* hook, before the query changes the collection, and the recompute started
\* after the query ran is for the tour the review had before the query changed
\* it, also when the query removed it or moved it out of the filter.
C5_CaptureBeforeMutate ==
  [][\A p \in Procs :
       /\ (pc[p] = "idle" /\ pc'[p] = "exec")
            => /\ reviews' = reviews
               /\ \A rv \in find(reviews, op'[p].tour, op'[p].user) : r'[p] = rv.tour
       /\ (exec(p) /\ r[p] # NoTour /\ ~execute(reviews, op[p]).err)
            => \A rv \in find(reviews, op[p].tour, op[p].user) :
                 pc'[p] = "agg" /\ tourId'[p] = rv.tour]_vars

\* An update has moved the review it matched to another tour, so that its
\* filter matches nothing any more, and its recompute is pending for the tour
\* the review came from.
C5_Witness ==
  \E p \in Procs :
    /\ pc[p] = "agg" /\ op[p].kind = "update"
    /\ reviewsOf(tourId[p]) = {}
    /\ reviews # {}

\* C6 (as claimed): a findOneAnd* query whose filter matched no review in the
\* pre hook makes no recompute call, raises no error to its caller and leaves
\* every review and every tour summary as it was.
C6_EmptyMatchNoOp ==
  [][\A p \in Procs :
       (pc[p] = "exec" /\ r[p] = NoTour /\ pc'[p] # "exec")
         => /\ pc'[p] = "idle"
            /\ res'[p].out = "ok"
            /\ reviews' = reviews
            /\ tours' = tours]_vars

\* C7: when the recompute a successful create started fails, at the aggregate
\* or at the tour write, the reviews stay as stored, the create stays answered
\* as a success, and no tour summary changes: the summary of the tour keeps
\* its previous values.
C7_DurabilityOverFreshness ==
  [][\A p \in Procs :
       (calcFails(p) /\ op[p].kind = "create")
         => /\ reviews' = reviews
            /\ tours' = tours
            /\ res[p] = [kind |-> "create", out |-> "ok"]
            /\ res'[p] = res[p]]_vars

\* The recompute of a create on the public tour failed: the review is stored,
\* the create was answered as a success, the summary is still the default one.
C7_Witness ==
  /\ closing
  /\ quiescent
  /\ \E p \in Procs : res[p] = [kind |-> "create", out |-> "ok"]
  /\ Cardinality(reviewsOf("t1")) = 1 /\ reviewsOf("t2") = {}
  /\ tours["t1"].ratingsQuantity = 0

C9_UnconditionalWrite ==
  [][\A p \in Procs :
       calcWrite(p) => tours'[tourId[p]] = summaryUpdate(stats[p])]_vars

\* C10: the aggregate of the recompute a create, an update or a delete starts
\* is read only after the mutation is in the collection: no stats are read
\* before it, the collection holds the mutation's effect when the recompute
\* starts, and the read, which comes later, is of the collection as it then is.
C10_RecomputeObservesMutation ==
  [][\A p \in Procs :
       /\ pc[p] \in {"idle", "exec"} => stats[p] = NoStats
       /\ \A t \in Tours, u \in Users, rt \in Ratings \cup {NoRating} :
            (create(p, t, u, rt) /\ pc'[p] = "agg")
              => [tour |-> t, user |-> u, rating |-> rt] \in reviews'
       /\ (exec(p) /\ pc'[p] = "agg")
            => \A rv \in find(reviews, op[p].tour, op[p].user) :
                 IF op[p].kind = "delete" THEN rv \notin reviews'
                 ELSE applyUpdate(rv, op[p]) \in reviews'
       /\ calcAggregate(p) => stats'[p] = aggregate(reviews', tourId[p])]_vars

\* A delete has removed the only review of the public tour and the aggregate
\* of its recompute has read the empty collection.
C10_Witness ==
  \E p \in Procs :
    /\ pc[p] = "write" /\ op[p].kind = "delete"
    /\ tourId[p] = "t1" /\ stats[p] = <<>>
    /\ tours["t1"].ratingsQuantity = 1
    /\ reviews = {}

\* C11 (as claimed): when the recompute that follows a committed update or
\* delete fails, at the aggregate or at the tour write, the reviews stay as the
\* query left them and the query is not reported to its caller as failed.
C11_RecomputeFailureKeepsMutation ==
  [][\A p \in Procs :
       (calcFails(p) /\ op[p].kind \in {"update", "delete"})
         => /\ reviews' = reviews
            /\ res'[p].out # "StoreError"]_vars

\* C12 (as claimed): in every reachable state every tour's ratingsAverage is
\* in [1, 5] and its ratingsQuantity is a non-negative integer, also when
\* reviews are stored without a rating.
C12_SummaryRange ==
  \A t \in Tours :
    /\ tours[t].ratingsAverage \in MinRatingsAverage..MaxRatingsAverage
    /\ tours[t].ratingsQuantity \in Nat

\* C13: when the store fails the review mutation itself (the insert of a
\* create, the findOne of the pre hook, or the findOneAnd* query), the request
\* ends with an error for its caller, the stored reviews are those from before
\* the request, no recompute is started and no tour summary changes; the
\* pre hook's read, the only step the request made before, changed nothing.
C13_FailedMutationNoPartialState ==
  [][\A p \in Procs :
       /\ ((\E kind \in {"create", "update", "delete"} : mutationFails(p, kind))
             \/ execFails(p))
            => /\ res'[p].out = "StoreError"
               /\ reviews' = reviews
               /\ tours' = tours
               /\ pc'[p] = "idle" /\ tourId'[p] = NoTour /\ stats'[p] = NoStats
       /\ (pc[p] = "idle" /\ pc'[p] = "exec")
            => reviews' = reviews /\ tours' = tours]_vars

\* The store has failed an update while one review is stored: the review is
\* still stored, no recompute is pending and no summary has changed.
C13_Witness ==
  \E p \in Procs :
    /\ res[p] = [kind |-> "update", out |-> "StoreError"]
    /\ quiescent
    /\ Cardinality(reviews) = 1
    /\ \A t \in Tours : tours[t].ratingsQuantity = DefaultRatingsQuantity

\* Every set of reviews an aggregate for tour t can read.
readsOf(t) == SUBSET [tour : {t}, user : Users, rating : Ratings \cup {NoRating}]

\* C14: under any interleaving of requests, recomputes and failures, the
\* (ratingsQuantity, ratingsAverage) pair of a tour is its default (0, 4.5) or
\* the pair one recompute computed from one aggregate read; a pair changes only
\* in the write of a recompute for that tour, both fields in the one step and
\* both from the stats that recompute read in one aggregate, and a recompute
\* that fails changes neither field.
C14_NoTornSummary ==
  /\ [](\A t \in Tours :
          \E S \in readsOf(t) : tours[t] = summaryUpdate(aggregate(S, t)))
  /\ [][\A t \in Tours :
          tours'[t] # tours[t]
            => \E p \in Procs : /\ calcWrite(p) /\ tourId[p] = t
                                /\ tours'[t] = summaryUpdate(stats[p])]_vars
  /\ [][\A p \in Procs :
          /\ calcAggregate(p) => stats'[p] = aggregate(reviews, tourId[p])
          /\ calcFails(p) => tours' = tours]_vars

\* Two creates on the public tour overlapped and the recompute that read one
\* review wrote last: the tour has two reviews, rated 4 and 4.5, and holds the
\* pair of the older read, (1, 4.5) or (1, 4), whole.
C14_Witness ==
  /\ quiescent /\ ~closing
  /\ \A p \in Procs : res[p] = [kind |-> "create", out |-> "ok"]
  /\ Cardinality(reviewsOf("t1")) = 2 /\ sumRatings(ratedOf("t1")) = 85
  /\ tours["t1"].ratingsQuantity = 1

\* C15 (as claimed): every create, update and delete that commits a change of
\* the Review collection starts, in the step after its commit, one recompute
\* for the tour of the review it changed, which then runs once; no committed
\* mutation is left without a recompute.
C15_EveryCommitRecomputes ==
  [][\A p \in Procs :
       /\ \A t \in Tours, u \in Users, rt \in Ratings \cup {NoRating} :
            (create(p, t, u, rt) /\ reviews' # reviews)
              => pc'[p] = "agg" /\ tourId'[p] = t
       /\ (exec(p) /\ reviews' # reviews)
            => pc'[p] = "agg" /\ tourId'[p] = op[p].tour
       /\ (pc[p] = "write" /\ pc'[p] # "write") => pc'[p] = "idle"]_vars

\* C16: the summary a recompute stores is a function of the reviews it read
\* for the tour, and of nothing else: whatever summary the tour held before,
\* the write leaves in the tour it matches the count and the average of the
\* read, and a recompute that runs again on unchanged reviews, the tour
\* already holding their summary, stores the same values once more.
C16_HistoryIndependence ==
  [][\A p \in Procs :
       calcWrite(p) =>
         LET t == tourId[p]
             now == summaryUpdate(aggregate(reviews, t))
         IN /\ tours'[t] # tours[t] => tours'[t] = summaryUpdate(stats[p])
            /\ ~secretTour[t] => tours'[t] = summaryUpdate(stats[p])
            /\ (stats[p] = aggregate(reviews, t) /\ ~secretTour[t])
                 => tours'[t] = now
            /\ (stats[p] = aggregate(reviews, t) /\ tours[t] = now)
                 => tours' = tours]_vars

\* A second recompute on unchanged reviews: an update that changed nothing of
\* the one review of the public tour is about to write the summary (1, 4)
\* the tour already holds.
C16_Witness ==
  \E p \in Procs :
    /\ pc[p] = "write" /\ op[p].kind = "update" /\ tourId[p] = "t1"
    /\ Cardinality(reviewsOf("t1")) = 1 /\ sumRatings(ratedOf("t1")) = 40
    /\ stats[p] = aggregate(reviews, "t1")
    /\ tours["t1"] = summaryUpdate(stats[p])

\* C17: an update whose pre hook captured a review of tour A and whose query
\* moves that review to another tour B starts one recompute, for A and not
\* for B; that recompute reads and writes for A only and the request is over
\* when it has written, so that no step of the request changes B's summary.
C17_MovedReviewRecomputesSource ==
  [][\A p \in Procs :
       /\ (exec(p) /\ op[p].kind = "update" /\ r[p] # NoTour
             /\ ~execute(reviews, op[p]).err)
            => \A rv \in find(reviews, op[p].tour, op[p].user) :
                 applyUpdate(rv, op[p]).tour # rv.tour
                   => /\ applyUpdate(rv, op[p]) \in reviews'
                      /\ pc'[p] = "agg"
                      /\ tourId'[p] = rv.tour
                      /\ tourId'[p] # op[p].newTour
                      /\ tours' = tours
       /\ (op[p].kind = "update" /\ pc[p] \in {"agg", "write"} /\ pc'[p] # pc[p])
            => /\ pc'[p] \in {"write", "idle"}
               /\ pc'[p] = "write" => tourId'[p] = tourId[p] /\ tours' = tours
               /\ \A t \in Tours \ {tourId[p]} : tours'[t] = tours[t]]_vars

\* An update has moved the only review from the secret tour to the public
\* tour and is over: the public tour has a review and still the summary of a
\* tour without reviews.
C17_Witness ==
  \E p \in Procs :
    /\ quiescent /\ ~closing
    /\ res[p] = [kind |-> "update", out |-> "ok"]
    /\ reviewsOf("t2") = {} /\ Cardinality(reviewsOf("t1")) = 1
    /\ tours["t1"].ratingsQuantity = DefaultRatingsQuantity

\* C18: a recompute for tour T, in each of its steps (the aggregate, the tour
\* write, a failure of either), adds, removes and changes no review and changes
\* no summary field of a tour other than T.
C18_RecomputeFrame ==
  [][\A p \in Procs :
       (calcAggregate(p) \/ calcWrite(p) \/ calcFails(p))
         => /\ reviews' = reviews
            /\ \A t \in Tours \ {tourId[p]} : tours'[t] = tours[t]]_vars

\* Both tours have a review and both recomputes are over: the public tour
\* holds the summary of its one review, rated 4.
C18_Witness ==
  /\ quiescent /\ ~closing
  /\ reviewsOf("t2") # {}
  /\ Cardinality(reviewsOf("t1")) = 1 /\ sumRatings(ratedOf("t1")) = 40
  /\ tours["t1"] = summaryUpdate(aggregate(reviews, "t1"))

\* C19: an update or a delete has not returned to its caller while its query
\* or its recompute is pending, and returns in the step that ends the
\* recompute (or that ends the request without one); a create that stored its
\* review has returned success when its recompute starts, and stays so while
\* the recompute runs.
C19_CompletionOrdering ==
  [][\A p \in Procs :
       /\ (op[p].kind \in {"update", "delete"} /\ pc[p] \in {"exec", "agg", "write"})
            => /\ res[p] = NoRes
               /\ res'[p] # NoRes => pc'[p] = "idle"
               /\ (pc[p] \in {"agg", "write"} /\ res'[p] # NoRes)
                    => calcWrite(p) \/ calcFails(p)
       /\ \A t \in Tours, u \in Users, rt \in Ratings \cup {NoRating} :
            (create(p, t, u, rt) /\ reviews' # reviews)
              => pc'[p] = "agg" /\ res'[p] = [kind |-> "create", out |-> "ok"]
       /\ (op[p].kind = "create" /\ pc[p] \in {"agg", "write"})
            => res[p] = [kind |-> "create", out |-> "ok"]]_vars

\* A create on the public tour has returned success and its recompute has
\* not written yet: the tour has one review and ratingsQuantity 0.
C19_Witness ==
  \E p \in Procs :
    /\ res[p] = [kind |-> "create", out |-> "ok"]
    /\ pc[p] \in {"agg", "write"} /\ tourId[p] = "t1"
    /\ Cardinality(reviewsOf("t1")) = 1
    /\ tours["t1"].ratingsQuantity = DefaultRatingsQuantity
====
